---- MODULE Spec2Model ----
(***************************************************************************)
(* Model of nagare/admin/exec_shell.py: the `shell` and `batch`            *)
(* administrative commands (Shell.run, Batch.run, create_python_shell,     *)
(* PythonShell and PythonShellWithHistory).                                *)
(*                                                                         *)
(* One process runs one command.  External collaborators (the optional     *)
(* engines, code.InteractiveConsole.interact, the readline module, the     *)
(* file loader) are modelled by their observable outcome: they return or   *)
(* they raise one exception of a small set of kinds.                       *)
(***************************************************************************)
EXTENDS Integers, Sequences, FiniteSets, TLC

\* ------------------------------------------------------------------ bounds
MaxContrib == 3     \* at most this many names contributed by the handlers
MaxArgs == 2        \* at most this many extra batch arguments

\* ------------------------------------------------------- names and values
\* Names an interaction handler may contribute.  'print' is a name of the
\* builtin symbol table; 'plain', 'banner', 'prompt' are the positional
\* parameters of create_python_shell.
Names == {"__name__", "app", "banner", "plain", "print", "prompt", "services", "session"}

\* Code points of the characters of each name (Python compares str by code point).
CodePoints(n) ==
    CASE n = "__name__" -> <<95, 95, 110, 97, 109, 101, 95, 95>>
      [] n = "app"      -> <<97, 112, 112>>
      [] n = "banner"   -> <<98, 97, 110, 110, 101, 114>>
      [] n = "plain"    -> <<112, 108, 97, 105, 110>>
      [] n = "print"    -> <<112, 114, 105, 110, 116>>
      [] n = "prompt"   -> <<112, 114, 111, 109, 112, 116>>
      [] n = "services" -> <<115, 101, 114, 118, 105, 99, 101, 115>>
      [] n = "session"  -> <<115, 101, 115, 115, 105, 111, 110>>

RECURSIVE SeqLess(_, _)
\* Lexicographic order of two sequences of code points (str.__lt__).
SeqLess(a, b) ==
    IF b = <<>> THEN FALSE
    ELSE IF a = <<>> THEN TRUE
    ELSE IF Head(a) # Head(b) THEN Head(a) < Head(b)
    ELSE SeqLess(Tail(a), Tail(b))

StrLess(x, y) == SeqLess(CodePoints(x), CodePoints(y))

\* The service registry object, and the object a handler contributes under a name.
Registry == "services_service"
HandlerValue(n) == "handler." \o n
AppName == "demo"       \* .name of the application object a handler contributes as 'app'

\* services_service.handle_interaction(): every possible contribution.
Contributions ==
    { [n \in S |-> HandlerValue(n)] : S \in {T \in SUBSET Names : Cardinality(T) <= MaxContrib} }

\* dict.__or__ / dict.update: keys of both, the right operand wins.
DictOr(a, b) ==
    [k \in (DOMAIN a) \cup (DOMAIN b) |-> IF k \in DOMAIN b THEN b[k] ELSE a[k]]

\* Older revision of the namespace construction: the handlers' entries
\* are applied over the fixed 'services' entry.
ShellNamespace_handlersWin(contrib) == DictOr([k \in {"services"} |-> Registry], contrib)

\* Shell.run: ns = handle_interaction() | {'services': services_service}
ShellNamespace(contrib) == DictOr(contrib, [k \in {"services"} |-> Registry])

\* Batch.run: ns = handle_interaction() | {'services': services_service}
BatchNamespace(contrib) == DictOr(contrib, [k \in {"services"} |-> Registry])

\* ------------------------------------------------------------------ banner
RECURSIVE SortedKeys(_)
\* sorted(ns): the keys in ascending str order.
SortedKeys(S) ==
    IF S = {} THEN <<>>
    ELSE LET m == CHOOSE x \in S : \A y \in S : ~StrLess(y, x)
         IN  <<m>> \o SortedKeys(S \ {m})

RECURSIVE Join(_, _)
\* sep.join(parts)
Join(sep, parts) ==
    IF parts = <<>> THEN ""
    ELSE IF Len(parts) = 1 THEN parts[1]
    ELSE parts[1] \o sep \o Join(sep, Tail(parts))

\* "'%s'" % variable
Quoted(n) == "'" \o n \o "'"

\* Join every quoted name with ', ' (no special case for the last one).
AvailabilityLine_noAnd(nsp) ==
    IF Cardinality(DOMAIN nsp) = 1
    THEN "Variable '" \o (CHOOSE k \in DOMAIN nsp : TRUE) \o "' is available"
    ELSE LET keys == SortedKeys(DOMAIN nsp)
             variables == [i \in 1..Len(keys) |-> Quoted(keys[i])]
         IN  "Variables " \o Join(", ", variables) \o " are available"

\* Shell.run: the line of the banner that enumerates the variables.
AvailabilityLine(nsp) ==
    IF Cardinality(DOMAIN nsp) = 1
    THEN "Variable '" \o (CHOOSE k \in DOMAIN nsp : TRUE) \o "' is available"
    ELSE LET keys == SortedKeys(DOMAIN nsp)
             variables == [i \in 1..Len(keys) |-> Quoted(keys[i])]
         IN  "Variables " \o Join(", ", SubSeq(variables, 1, Len(variables) - 1))
                 \o " and " \o variables[Len(variables)] \o " are available"

\* admin.NAGARE_BANNER + '\n' + 'Python {} on {}\n\n'
BannerHead == "NAGARE_BANNER\nPython VERSION on PLATFORM\n\n"

\* Shell.run: the whole banner.
Banner(nsp) == BannerHead \o AvailabilityLine(nsp) \o "\n"

\* Shell.run: '' if app is None else '[<app.name>]'
PromptTag(nsp) == IF "app" \in DOMAIN nsp THEN "[" \o AppName \o "]" ELSE ""


\* ------------------------------------------------------------- exceptions
\* Kinds of exception an external call may raise.  A TypeError is kept with
\* the shape of its args: a message mentioning 'exitmsg', another message,
\* no argument at all, or a first argument that is not a string.
TypeErrors == {"TypeError:exitmsg", "TypeError:other", "TypeError:noargs", "TypeError:nonstr"}
Raisable == {"ImportError", "OSError"}
LoopErrors == TypeErrors \cup Raisable \cup {"SystemExit"}
ScriptErrors == {"OSError", "SyntaxError", "SystemExit"}

\* PythonShell.__call__, the except clause around the first interact():
\*   except TypeError as e:
\*       if 'exitmsg' in e.args[0]: <retry>  else: raise
\* "retry", or the exception that leaves the clause.
ExitmsgHandler(exc) ==
    CASE exc = "TypeError:exitmsg" -> "retry"
      [] exc = "TypeError:other"   -> exc
      [] exc = "TypeError:noargs"  -> "IndexError"              \* e.args[0] on ()
      [] exc = "TypeError:nonstr"  -> "TypeError:notiterable"   \* 'exitmsg' in 5
      [] OTHER                     -> exc                       \* not a TypeError: not caught

\* ------------------------------------------------------- create_python_shell
Engines == {"ptpython", "bpython", "IPython"}

\* The optional engines are probed whatever the flag says.
EntryPoint_ignorePlain(plainArg) == "try_ptpython"

\* create_python_shell: `if not plain:` guards the three optional engines.
EntryPoint(plainArg) == IF ~plainArg THEN "try_ptpython" ELSE "try_readline"

\* bpython is probed last: ptpython, IPython, bpython.
NextProbe_ipythonFirst(engine) ==
    CASE engine = "ptpython" -> "try_ipython"
      [] engine = "IPython"  -> "try_bpython"
      [] engine = "bpython"  -> "try_readline"

\* create_python_shell: where control goes when `import <engine>` raises ImportError.
NextProbe(engine) ==
    CASE engine = "ptpython" -> "try_bpython"
      [] engine = "bpython"  -> "try_ipython"
      [] engine = "IPython"  -> "try_readline"

\* create_python_shell: `return` after the engine's session ends.
AfterEngine(engine) == "done"

\* Shell.run calling create_python_shell(plain, banner, tag, __name__='__console__', **ns)
\* whose signature is (plain, banner, prompt, **ns): a key of ns that names a
\* positional parameter or repeats the explicit keyword makes the call raise
\* TypeError ("got multiple values for ...") before the body runs.
BindCall(plainArg, bannerArg, promptArg, nsp) ==
    IF (DOMAIN nsp) \cap {"plain", "banner", "prompt", "__name__"} # {}
    THEN [ok |-> FALSE, args |-> "TypeError:multiple_values"]
    ELSE [ok |-> TRUE,
          args |-> [plain |-> plainArg, banner |-> bannerArg, prompt |-> promptArg,
                    ns |-> DictOr(nsp, [k \in {"__name__"} |-> "__console__"])]]

\* ---------------------------------------------------------------- Batch.run
ScriptPaths == {"job.py", "tools/migrate.py"}
ArgValues == {"-v", "demo"}

RECURSIVE SeqsUpTo(_, _)
\* Every list of at most n elements of S.
SeqsUpTo(S, n) ==
    IF n = 0 THEN {<<>>}
    ELSE LET shorter == SeqsUpTo(S, n - 1)
         IN  shorter \cup { Append(q, x) : q \in shorter, x \in S }

\* The script's own path is left out of the argument vector.
BatchArgv_argsOnly(python_file, batch_arguments) == batch_arguments

\* Batch.run: sys.argv = [python_file] + batch_arguments
BatchArgv(python_file, batch_arguments) == <<python_file>> \o batch_arguments

\* Names already bound in builtins keep their value (setdefault semantics).
BuiltinsUpdate_keepExisting(table, nsp) == DictOr(nsp, table)

\* Batch.run: builtins.__dict__.update(ns)
BuiltinsUpdate(table, nsp) == DictOr(table, nsp)

\* ------------------------------------------------------------------- state
VARIABLES
    handlers,        \* what services_service.handle_interaction() returns
    importable,      \* the optional engines whose import succeeds
    readlineAvail,   \* whether `import readline` succeeds
    historyExists,   \* whether ~/.nagarehistory exists
    cmd,             \* "none", "shell" or "batch"
    pc,              \* position of the running command
    raised,          \* exception that reached the command dispatcher, or "none"
    plain, ns, banner, prompt,   \* locals of Shell.run / Batch.run
    shellArgs,       \* <<>> or <<parameters create_python_shell was entered with>>
    probes,          \* modules whose import was attempted, in order
    consoles,        \* consoles constructed and called, in order
    sessions,        \* interactive loops that actually ran
    sysPs,           \* <<sys.ps1, sys.ps2>>
    frame,           \* "none", "history" (PythonShellWithHistory) or "plain" (PythonShell)
    calls,           \* interact() calls of the PythonShell.__call__ in progress
    firstExc,        \* what its first interact() raised, or "none"
    callResult,      \* "idle", "running", "returned" or the exception it raised
    readlineLog,     \* readline calls and history-console loops, in order
    argv,            \* sys.argv
    builtinsTable,   \* builtins.__dict__
    pythonFile, batchArgs,       \* arguments of Batch.run
    scriptSaw        \* <<>> or <<what the loaded script observed>>

vars == <<handlers, importable, readlineAvail, historyExists, cmd, pc, raised,
          plain, ns, banner, prompt, shellArgs, probes, consoles, sessions, sysPs,
          frame, calls, firstExc, callResult, readlineLog,
          argv, builtinsTable, pythonFile, batchArgs, scriptSaw>>

envVars == <<handlers, importable, readlineAvail, historyExists>>
shellLocals == <<plain, ns, banner, prompt, shellArgs>>
selectorVars == <<probes, consoles, sessions, sysPs>>
consoleVars == <<frame, calls, firstExc, callResult, readlineLog>>
batchVars == <<argv, builtinsTable, pythonFile, batchArgs, scriptSaw>>

EmptyDict == [k \in {} |-> ""]
InitialBuiltins == [k \in {"print", "len"} |-> "builtin." \o k]
InitialArgv == <<"nagare-admin", "exec">>

Init ==
    /\ handlers \in Contributions
    /\ importable \in SUBSET Engines
    /\ readlineAvail \in BOOLEAN
    /\ historyExists \in BOOLEAN
    /\ cmd = "none"
    /\ pc = "idle"
    /\ raised = "none"
    /\ plain = FALSE
    /\ ns = EmptyDict
    /\ banner = ""
    /\ prompt = ""
    /\ shellArgs = <<>>
    /\ probes = <<>>
    /\ consoles = <<>>
    /\ sessions = 0
    /\ sysPs = <<">>> ", "... ">>
    /\ frame = "none"
    /\ calls = <<>>
    /\ firstExc = "none"
    /\ callResult = "idle"
    /\ readlineLog = <<>>
    /\ argv = InitialArgv
    /\ builtinsTable = InitialBuiltins
    /\ pythonFile = ""
    /\ batchArgs = <<>>
    /\ scriptSaw = <<>>


\* ---------------------------------------------------------------- Shell.run
\* Shell.run(services_service, plain): builds the namespace, the banner and the
\* prompt tag, then calls create_python_shell.
Shell_run ==
    /\ pc = "idle"
    /\ \E plainOpt \in BOOLEAN :
         LET nsp == ShellNamespace(handlers)
             b == Banner(nsp)
             tag == PromptTag(nsp)
             call == BindCall(plainOpt, b, tag, nsp)
         IN  /\ cmd' = "shell"
             /\ plain' = plainOpt
             /\ ns' = nsp
             /\ banner' = b
             /\ prompt' = tag
             /\ IF call.ok
                THEN /\ shellArgs' = <<call.args>>
                     /\ pc' = EntryPoint(call.args.plain)
                     /\ raised' = raised
                ELSE /\ shellArgs' = <<>>
                     /\ pc' = "raised"
                     /\ raised' = call.args
    /\ UNCHANGED <<envVars, selectorVars, consoleVars, batchVars>>

\* Parameters of the create_python_shell call in progress.
Arg == shellArgs[1]

\* The console object handed to an engine or built by the fallback.
Console(kind) ==
    [kind |-> kind, banner |-> Arg.banner, prompt |-> "Nagare" \o Arg.prompt, ns |-> Arg.ns]

\* create_python_shell: `try: import <engine> / except ImportError: pass / else: ...`
TryImport(engine, run) ==
    /\ probes' = Append(probes, engine)
    /\ pc' = IF engine \in importable THEN run ELSE NextProbe(engine)
    /\ UNCHANGED <<envVars, cmd, raised, shellLocals, consoles, sessions, sysPs,
                   consoleVars, batchVars>>

\* create_python_shell: the else branch of an engine: configure it, run its
\* session, return.  An exception the engine raises is not caught.
RunEngine(engine, ps) ==
    /\ consoles' = Append(consoles, Console(engine))
    /\ sessions' = sessions + 1
    /\ sysPs' = ps
    /\ \E exc \in {"none"} \cup Raisable \cup {"SystemExit"} :
         IF exc = "none"
         THEN pc' = AfterEngine(engine) /\ raised' = raised
         ELSE pc' = "raised" /\ raised' = exc
    /\ UNCHANGED <<envVars, cmd, shellLocals, probes, consoleVars, batchVars>>

TryPtpython ==
    /\ pc = "try_ptpython"
    /\ TryImport("ptpython", "run_ptpython")

RunPtpython ==
    /\ pc = "run_ptpython"
    /\ RunEngine("ptpython", sysPs)

TryBpython ==
    /\ pc = "try_bpython"
    /\ TryImport("bpython", "run_bpython")

\* sys.ps1 / sys.ps2 are rewritten before bpython's embed().
RunBpython ==
    /\ pc = "run_bpython"
    /\ RunEngine("bpython",
                 <<"Nagare" \o Arg.prompt \o ">>> ", "Nagare" \o Arg.prompt \o "... ">>)

TryIPython ==
    /\ pc = "try_ipython"
    /\ TryImport("IPython", "run_ipython")

RunIPython ==
    /\ pc = "run_ipython"
    /\ RunEngine("IPython", sysPs)

\* create_python_shell: `try: import readline; PythonShellWithHistory(...)(readline)`
\* `except ImportError: PythonShell(...)()`, the import itself.
TryReadline ==
    /\ pc = "try_readline"
    /\ probes' = Append(probes, "readline")
    /\ pc' = IF readlineAvail THEN "history_call" ELSE "plain_call"
    /\ UNCHANGED <<envVars, cmd, raised, shellLocals, consoles, sessions, sysPs,
                   consoleVars, batchVars>>

\* Where an exception leaving PythonShellWithHistory.__call__ or PythonShell.__call__
\* goes: create_python_shell's `except ImportError` covers the whole history
\* console, nothing covers the plain one.
Unwind(from, exc) ==
    IF from = "history" /\ exc = "ImportError"
    THEN pc' = "plain_call" /\ raised' = raised
    ELSE pc' = "raised" /\ raised' = exc

\* PythonShellWithHistory.__call__ up to super().__call__(): parse_and_bind,
\* read_history_file if the file exists, set_history_length(200).
History_start ==
    /\ pc = "history_call"
    /\ frame' = "history"
    /\ consoles' = Append(consoles, Console("PythonShellWithHistory"))
    /\ calls' = <<>>
    /\ firstExc' = "none"
    /\ \E exc \in {"none"} \cup Raisable :
         \/ /\ exc = "none"
            /\ readlineLog' = readlineLog \o <<"parse_and_bind">>
                  \o (IF historyExists THEN <<"read_history_file">> ELSE <<>>)
                  \o <<"set_history_length">>
            /\ callResult' = "running"
            /\ pc' = "interact_exitmsg"
            /\ raised' = raised
         \/ /\ exc # "none"
            /\ historyExists
            /\ readlineLog' = readlineLog \o <<"parse_and_bind">>
            /\ callResult' = exc
            /\ Unwind("history", exc)
    /\ UNCHANGED <<envVars, cmd, shellLocals, probes, sessions, sysPs, batchVars>>

\* create_python_shell: PythonShell(banner, prompt, ns)() in the except clause.
Plain_start ==
    /\ pc = "plain_call"
    /\ frame' = "plain"
    /\ consoles' = Append(consoles, Console("PythonShell"))
    /\ calls' = <<>>
    /\ firstExc' = "none"
    /\ callResult' = "running"
    /\ pc' = "interact_exitmsg"
    /\ UNCHANGED <<envVars, cmd, raised, shellLocals, probes, sessions, sysPs,
                   readlineLog, batchVars>>

\* The interactive loop ran (or not) and interact() returned or raised.
LoopLog(ran) ==
    IF frame = "history" /\ ran THEN readlineLog \o <<"loop">> ELSE readlineLog

\* PythonShell.__call__ returns to its caller.
Return ==
    /\ callResult' = "returned"
    /\ raised' = raised
    /\ pc' = IF frame = "history" THEN "write_history" ELSE "done"

\* PythonShell.__call__: self.interact(self.banner, exitmsg='') and its except clause.
Interact_exitmsg ==
    /\ pc = "interact_exitmsg"
    /\ \E ran \in BOOLEAN, exc \in {"none"} \cup LoopErrors :
         /\ ~ran => exc # "none"
         /\ calls' = Append(calls, "interact(banner, exitmsg='')")
         /\ sessions' = sessions + (IF ran THEN 1 ELSE 0)
         /\ readlineLog' = LoopLog(ran)
         /\ firstExc' = exc
         /\ IF exc = "none"
            THEN Return
            ELSE IF ExitmsgHandler(exc) = "retry"
                 THEN /\ pc' = "interact_retry"
                      /\ UNCHANGED <<callResult, raised>>
                 ELSE /\ callResult' = ExitmsgHandler(exc)
                      /\ Unwind(frame, ExitmsgHandler(exc))
    /\ UNCHANGED <<envVars, cmd, shellLocals, probes, consoles, sysPs, frame, batchVars>>

\* PythonShell.__call__: self.interact(self.banner) inside the except clause.
Interact_retry ==
    /\ pc = "interact_retry"
    /\ \E ran \in BOOLEAN, exc \in {"none"} \cup LoopErrors :
         /\ ~ran => exc # "none"
         /\ calls' = Append(calls, "interact(banner)")
         /\ sessions' = sessions + (IF ran THEN 1 ELSE 0)
         /\ readlineLog' = LoopLog(ran)
         /\ IF exc = "none"
            THEN Return
            ELSE /\ callResult' = exc
                 /\ Unwind(frame, exc)
    /\ UNCHANGED <<envVars, cmd, shellLocals, probes, consoles, sysPs, frame,
                   firstExc, batchVars>>

\* PythonShellWithHistory.__call__: readline.write_history_file(history_path),
\* the statement after super().__call__().
History_write ==
    /\ pc = "write_history"
    /\ \E exc \in {"none"} \cup Raisable :
         /\ readlineLog' = Append(readlineLog, "write_history_file")
         /\ IF exc = "none"
            THEN pc' = "done" /\ raised' = raised
            ELSE Unwind("history", exc)
    /\ UNCHANGED <<envVars, cmd, shellLocals, selectorVars, frame, calls, firstExc,
                   callResult, batchVars>>

\* ---------------------------------------------------------------- Batch.run
\* Batch.run: sys.argv = [python_file] + batch_arguments
Batch_run ==
    /\ pc = "idle"
    /\ \E f \in ScriptPaths, extra \in SeqsUpTo(ArgValues, MaxArgs) :
         /\ pythonFile' = f
         /\ batchArgs' = extra
         /\ argv' = BatchArgv(f, extra)
    /\ cmd' = "batch"
    /\ pc' = "batch_namespace"
    /\ UNCHANGED <<envVars, raised, shellLocals, selectorVars, consoleVars,
                   builtinsTable, scriptSaw>>

\* Batch.run: ns = handle_interaction() | {...}; builtins.__dict__.update(ns)
Batch_namespace ==
    /\ pc = "batch_namespace"
    /\ ns' = BatchNamespace(handlers)
    /\ builtinsTable' = BuiltinsUpdate(builtinsTable, BatchNamespace(handlers))
    /\ pc' = "load_file"
    /\ UNCHANGED <<envVars, cmd, raised, plain, banner, prompt, shellArgs, selectorVars,
                   consoleVars, argv, pythonFile, batchArgs, scriptSaw>>

\* Batch.run: reference.load_file(python_file, None).  The script runs with the
\* process's argument vector and builtins; its errors are not caught.
Load_file ==
    /\ pc = "load_file"
    /\ scriptSaw' = <<[path |-> pythonFile, argv |-> argv, names |-> builtinsTable]>>
    /\ \E exc \in {"none"} \cup ScriptErrors :
         IF exc = "none"
         THEN pc' = "done" /\ raised' = raised
         ELSE pc' = "raised" /\ raised' = exc
    /\ UNCHANGED <<envVars, cmd, shellLocals, selectorVars, consoleVars, argv,
                   builtinsTable, pythonFile, batchArgs>>

Next ==
    \/ Shell_run
    \/ TryPtpython
    \/ RunPtpython
    \/ TryBpython
    \/ RunBpython
    \/ TryIPython
    \/ RunIPython
    \/ TryReadline
    \/ History_start
    \/ Plain_start
    \/ Interact_exitmsg
    \/ Interact_retry
    \/ History_write
    \/ Batch_run
    \/ Batch_namespace
    \/ Load_file

Spec == Init /\ [][Next]_vars


\* ================================================================== claims
Terminated == pc \in {"done", "raised"}
Entered == cmd = "shell" /\ shellArgs # <<>>        \* create_python_shell was entered
BuiltinKinds == {"PythonShellWithHistory", "PythonShell"}
ConsoleKinds == { consoles[i].kind : i \in 1..Len(consoles) }

\* C1: with plain=True no optional engine is ever imported, configured or run,
\* whichever engines are importable, and the console that runs is the built-in one.
C1_PlainSkipsEngines ==
    (Entered /\ Arg.plain) =>
        /\ \A i \in 1..Len(probes) : probes[i] \notin Engines
        /\ ConsoleKinds \subseteq BuiltinKinds
        /\ sysPs = <<">>> ", "... ">>
        /\ pc \notin {"try_ptpython", "run_ptpython", "try_bpython", "run_bpython",
                      "try_ipython", "run_ipython"}
        /\ Terminated => consoles # <<>>

C1_Witness ==
    /\ Entered /\ Arg.plain
    /\ importable = Engines
    /\ pc = "done"
    /\ sessions = 1
    /\ ConsoleKinds = {"PythonShellWithHistory"}

\* The engine the fixed order ptpython, bpython, IPython selects, or "builtin".
C2_Chosen(imp) ==
    IF "ptpython" \in imp THEN "ptpython"
    ELSE IF "bpython" \in imp THEN "bpython"
    ELSE IF "IPython" \in imp THEN "IPython"
    ELSE "builtin"

\* The imports that selection may attempt, in order.
C2_Probes(imp) ==
    IF "ptpython" \in imp THEN <<"ptpython">>
    ELSE IF "bpython" \in imp THEN <<"ptpython", "bpython">>
    ELSE IF "IPython" \in imp THEN <<"ptpython", "bpython", "IPython">>
    ELSE <<"ptpython", "bpython", "IPython", "readline">>

\* C2: with plain=False the console that runs is the first importable engine in
\* the order ptpython, bpython, IPython; no engine after it is imported; the
\* built-in console runs if and only if none of the three is importable.
C2_FirstImportableEngine ==
    (Entered /\ ~Arg.plain) =>
        /\ Len(probes) <= Len(C2_Probes(importable))
        /\ probes = SubSeq(C2_Probes(importable), 1, Len(probes))
        /\ consoles # <<>> =>
             IF C2_Chosen(importable) = "builtin"
             THEN ConsoleKinds \subseteq BuiltinKinds
             ELSE ConsoleKinds = {C2_Chosen(importable)} /\ Len(consoles) = 1
        /\ Terminated => consoles # <<>>

C2_Witness ==
    /\ Entered /\ ~Arg.plain
    /\ importable = {"bpython", "IPython"}
    /\ pc = "done"
    /\ ConsoleKinds = {"bpython"}
    /\ probes = <<"ptpython", "bpython">>

\* C3: every call of create_python_shell runs exactly one interactive console
\* session, never zero and never two, also when an ImportError or another
\* exception is raised while the history-enabled console starts or runs.
C3_ExactlyOneSession ==
    Entered =>
        /\ sessions <= 1
        /\ Terminated => sessions = 1

\* Positions of the history console's events in the readline log.
LogAt(what) == { i \in 1..Len(readlineLog) : readlineLog[i] = what }

\* C4: in the history console the history file (if it exists) is read before the
\* loop starts, and whenever the loop has ended, on any path, the history has
\* been written back by the time the call is over.
C4_HistoryWrittenBack ==
    /\ \A i \in LogAt("loop") :
         historyExists => \E j \in LogAt("read_history_file") : j < i
    /\ Terminated =>
         \A i \in LogAt("loop") : \E j \in LogAt("write_history_file") : j > i

\* C5: PythonShell.__call__ first calls interact with exitmsg; a TypeError that
\* mentions 'exitmsg' is retried exactly once without it and not surfaced; any
\* other TypeError is re-raised with no retry; the retry is never retried.
C5_ExitmsgRetry ==
    /\ calls # <<>> => calls[1] = "interact(banner, exitmsg='')"
    /\ Len(calls) <= 2
    /\ Len(calls) = 2 => calls[2] = "interact(banner)" /\ firstExc = "TypeError:exitmsg"
    /\ callResult \notin {"idle", "running"} =>
         /\ firstExc = "TypeError:exitmsg" => Len(calls) = 2
         /\ firstExc \in {"TypeError:other", "TypeError:noargs", "TypeError:nonstr"} =>
              callResult = firstExc /\ Len(calls) = 1

\* The i-th key of S in ascending order: the one with i-1 keys below it.
C6_Nth(S, i) == CHOOSE k \in S : Cardinality({j \in S : StrLess(j, k)}) = i - 1

RECURSIVE C6_Listing(_, _)
\* Keys i.. of S, each quoted, ', ' between them and ' and ' before the last.
C6_Listing(S, i) ==
    LET n == Cardinality(S)
    IN  IF i > n THEN ""
        ELSE "'" \o C6_Nth(S, i) \o "'"
                 \o (IF i = n THEN "" ELSE IF i = n - 1 THEN " and " ELSE ", ")
                 \o C6_Listing(S, i + 1)

C6_Line(S) ==
    IF Cardinality(S) = 1
    THEN "Variable '" \o C6_Nth(S, 1) \o "' is available"
    ELSE "Variables " \o C6_Listing(S, 1) \o " are available"

\* C6: the availability line of the banner is "Variable 'x' is available" for a
\* single key, otherwise "Variables " + the quoted keys in sorted order, joined
\* with ", " and a final " and ", + " are available".
C6_AvailabilityLine ==
    cmd = "shell" =>
        /\ banner = BannerHead \o C6_Line(DOMAIN ns) \o "\n"
        /\ DOMAIN ns = {"services"} =>
             banner = BannerHead \o "Variable 'services' is available\n"
        /\ DOMAIN ns = {"app", "services"} =>
             banner = BannerHead \o "Variables 'app' and 'services' are available\n"
        /\ DOMAIN ns = {"session", "services", "app"} =>
             banner = BannerHead \o "Variables 'app', 'services' and 'session' are available\n"

C6_Witness ==
    /\ cmd = "shell"
    /\ DOMAIN ns = {"session", "print", "services", "app"}
    /\ banner = BannerHead
          \o "Variables 'app', 'print', 'services' and 'session' are available\n"

C8_NamespaceInBuiltins ==
    LET ok(t) == /\ \A k \in DOMAIN ns : k \in DOMAIN t /\ t[k] = ns[k]
                 /\ \A k \in (DOMAIN InitialBuiltins) \ (DOMAIN ns) :
                      k \in DOMAIN t /\ t[k] = InitialBuiltins[k]
    IN  /\ pc = "load_file" => ok(builtinsTable)
        /\ scriptSaw # <<>> => ok(scriptSaw[1].names)

C8_Witness ==
    /\ scriptSaw # <<>>
    /\ DOMAIN handlers = {"app", "print", "session"}
    /\ scriptSaw[1].names["print"] = "handler.print"
    /\ scriptSaw[1].names["services"] = "services_service"
    /\ scriptSaw[1].names["len"] = "builtin.len"

C10_ConsoleGetsNamespace ==
    cmd = "shell" =>
        /\ raised # "TypeError:multiple_values"
        /\ shellArgs # <<>>
        /\ Arg.plain = plain /\ Arg.banner = banner /\ Arg.prompt = prompt
        /\ DOMAIN Arg.ns = (DOMAIN ns) \cup {"__name__"}
        /\ Arg.ns["__name__"] = "__console__"
        /\ \A k \in (DOMAIN ns) \ {"__name__"} : Arg.ns[k] = ns[k]

====
